---- MODULE Spec2Model ----
(***************************************************************************)
(* NAVIGATOR v1.0 scoring and decision engine (src/NAV_v1.py).            *)
(*                                                                         *)
(* Number representation.  The program computes on Python floats.  Here   *)
(* every clinical input is an integer number of tenths (age 34 is 340,    *)
(* BMI 25.0 is 250: the input widgets step by 0.1 or 1), every risk ratio *)
(* is an integer number of 1/Unit, and every score is an integer number   *)
(* of 1/Unit points (a score of 100 is 100 * Unit).  With Unit = 900 all  *)
(* divisions of the program (by 15, 18, 3, 6 and the percent weights) are *)
(* exact on tenths, so the integers below are the exact values of the     *)
(* program's formulas.                                                     *)
(***************************************************************************)
EXTENDS Integers, Sequences, FiniteSets, TLC

VARIABLES age, bmi, emt_mm, prog_ng_ml, euploid, good_grade,
          sbs, eps, egs, gni, suggestions, row, result, pc

vars == <<age, bmi, emt_mm, prog_ng_ml, euploid, good_grade,
          sbs, eps, egs, gni, suggestions, row, result, pc>>

inputs == <<age, bmi, emt_mm, prog_ng_ml, euploid, good_grade>>

scores == <<sbs, eps, egs, gni>>

\* ------------------------------------------------------------------ bounds
\* Inputs are drawn from the tenths within Radius of every threshold of the
\* program, and from -Far and Far (a negative and a very large value).
Radius == 1

Far == 1000

\* One point of score, and the value 1.0 of a risk ratio.
Unit == 9 * 100

Near(t) == (t - Radius)..(t + Radius)

AgeVals == Near(300) \cup Near(380) \cup Near(450) \cup {-Far, Far}

BmiVals == Near(220) \cup Near(270) \cup Near(300) \cup Near(400) \cup {-Far, Far}

EmtVals == Near(40) \cup Near(70) \cup {-Far, Far}

ProgVals == Near(35) \cup Near(95) \cup {-Far, Far}

\* Scores handed to bucket and primary_limiting_domain on their own.
ScoreVals == Near(0) \cup Near(30 * Unit) \cup Near(60 * Unit) \cup Near(100 * Unit)

\* ----------------------------------------------------------------- helpers
Min(a, b) == IF a < b THEN a ELSE b

Max(a, b) == IF a > b THEN a ELSE b

\* Mutant of clip: the lower limit is dropped.
clip_nolower(x, lo, hi) == Min(hi, x)

\* np.clip(x, lo, hi)
clip(x, lo, hi) == Max(lo, Min(hi, x))

\* clamp01 on a ratio in 1/Unit
clamp01(x) == clip(x, 0, Unit)

\* ---------------------------------------------------------------- scorers
\* Mutant of score_systemic: the age ramp starts at 31 instead of 30.
score_systemic_late(a, b) ==
    LET age_r == clamp01(((a - 310) * Unit) \div 150)
        bmi_r == clamp01(((b - 220) * Unit) \div 180)
        s == (100 * (55 * age_r + 45 * bmi_r)) \div 100
    IN  clip(s, 0, 100 * Unit)

score_systemic(a, b) ==
    LET age_r == clamp01(((a - 300) * Unit) \div 150)
        bmi_r == clamp01(((b - 220) * Unit) \div 180)
        s == (100 * (55 * age_r + 45 * bmi_r)) \div 100
    IN  clip(s, 0, 100 * Unit)

\* Mutant of score_endometrial: the thickness ramp rises with emt_mm, as the
\* ramps of score_systemic do.
score_endometrial_rising(e, p) ==
    LET emt_r == clamp01(((e - 70) * Unit) \div 30)
        prog_r == clamp01(((95 - p) * Unit) \div 60)
        s == (100 * (60 * emt_r + 40 * prog_r)) \div 100
    IN  clip(s, 0, 100 * Unit)

score_endometrial(e, p) ==
    LET emt_r == clamp01(((70 - e) * Unit) \div 30)
        prog_r == clamp01(((95 - p) * Unit) \div 60)
        s == (100 * (60 * emt_r + 40 * prog_r)) \div 100
    IN  clip(s, 0, 100 * Unit)

\* Mutant of score_embryo: the two weights are exchanged.
score_embryo_swapped(eu, gg) ==
    LET competence == (30 * (IF eu THEN Unit ELSE 0) + 70 * (IF gg THEN Unit ELSE 0)) \div 100
        emb_r == Unit - clamp01(competence)
        s == 100 * emb_r
    IN  clip(s, 0, 100 * Unit)

score_embryo(eu, gg) ==
    LET competence == (70 * (IF eu THEN Unit ELSE 0) + 30 * (IF gg THEN Unit ELSE 0)) \div 100
        emb_r == Unit - clamp01(competence)
        s == 100 * emb_r
    IN  clip(s, 0, 100 * Unit)

\* Mutant of navigator_index: the embryo and endometrial weights are exchanged.
navigator_index_swapped(a, b, e, p, eu, gg) ==
    LET s == score_systemic(a, b)
        n == score_endometrial(e, p)
        g == score_embryo(eu, gg)
        x == (35 * g + 45 * n + 20 * s) \div 100
    IN  <<s, n, g, clip(x, 0, 100 * Unit)>>

navigator_index(a, b, e, p, eu, gg) ==
    LET s == score_systemic(a, b)
        n == score_endometrial(e, p)
        g == score_embryo(eu, gg)
        x == (45 * g + 35 * n + 20 * s) \div 100
    IN  <<s, n, g, clip(x, 0, 100 * Unit)>>

\* Mutant of bucket: 30 falls in the lower band.
bucket_le(score) ==
    IF score <= 30 * Unit THEN "Low"
    ELSE IF score < 60 * Unit THEN "Moderate"
    ELSE "High"

bucket(score) ==
    IF score < 30 * Unit THEN "Low"
    ELSE IF score < 60 * Unit THEN "Moderate"
    ELSE "High"

\* max(d, key=d.get): the keys are scanned in insertion order and a later key
\* replaces the best one only when its value is strictly greater.
RECURSIVE MaxKey(_, _, _, _)
MaxKey(keys, d, i, best) ==
    IF i > Len(keys) THEN best
    ELSE MaxKey(keys, d, i + 1, IF d[keys[i]] > d[best] THEN keys[i] ELSE best)

\* Mutant of primary_limiting_domain: the dictionary is built in the order of
\* the parameters, Systemic first.
primary_limiting_domain_sysfirst(s, n, g) ==
    LET keys == <<"Systemic", "Endometrium", "Embryo">>
        d == [k \in {"Embryo", "Endometrium", "Systemic"} |->
                 IF k = "Embryo" THEN g ELSE IF k = "Endometrium" THEN n ELSE s]
    IN  MaxKey(keys, d, 2, keys[1])

primary_limiting_domain(s, n, g) ==
    LET keys == <<"Embryo", "Endometrium", "Systemic">>
        d == [k \in {"Embryo", "Endometrium", "Systemic"} |->
                 IF k = "Embryo" THEN g ELSE IF k = "Endometrium" THEN n ELSE s]
    IN  MaxKey(keys, d, 2, keys[1])

\* ------------------------------------------------------------- formatting
Abs(x) == IF x < 0 THEN -x ELSE x

Sign(x) == IF x < 0 THEN "-" ELSE ""

\* f"{v:.1f}" of a value given in tenths.
Fmt1(x) == Sign(x) \o ToString(Abs(x) \div 10) \o "." \o ToString(Abs(x) % 10)

\* f"{v:.0f}" of a value given in tenths: to the nearest integer, a half to the
\* even one (a half of a tenths value is an exact float).
Fmt0(x) ==
    LET q == Abs(x) \div 10
        r == Abs(x) % 10
        n == IF r < 5 THEN q ELSE IF r > 5 THEN q + 1 ELSE IF q % 2 = 0 THEN q ELSE q + 1
    IN  Sign(x) \o ToString(n)

\* Whether a score (in 1/Unit, not negative) lies exactly halfway between two
\* tenths.  The float the program holds there is the exact value up to rounding
\* error, so f"{gni:.1f}" may print either neighbour.
IsTie(x) == x % (Unit \div 10) = Unit \div 20

\* f"{gni:.1f}" of a score in 1/Unit; up is the side a tie falls on.
FmtScore(x, up) ==
    LET q == x \div (Unit \div 10)
        r == x % (Unit \div 10)
        t == IF r < Unit \div 20 THEN q
             ELSE IF r > Unit \div 20 THEN q + 1
             ELSE IF up THEN q + 1 ELSE q
    IN  Fmt1(t)

\* round(score, 2) of a score in 1/Unit, in hundredths.  Unit / 100 is odd, so
\* no score is halfway between two hundredths.
Round2(x) ==
    LET q == x \div (Unit \div 100)
        r == x % (Unit \div 100)
    IN  IF 2 * r < Unit \div 100 THEN q ELSE q + 1

\* -------------------------------------------------------- decision engine
\* The bullets' texts are the program's, with its dashes and arrows in ASCII.
EmbryoFocusTitle == "Primary focus: Embryo competence"

EmbryoPassedTitle == "Embryo gate passed (euploid = Yes)"

EndoTitle == "Endometrial phenotype actions"

SysTitle == "Systemic biology actions"

SummaryTitle == "NAVIGATOR summary path"

EmtLowBullet(e) ==
    "Endometrium thickness is low (EMT " \o Fmt1(e) \o
    " mm). Optimize endometrial preparation (standard protocol adjustments) before transfer."

CavityBullet ==
    "If thin endometrium persists, consider uterine cavity evaluation (e.g., sonohysterography/hysteroscopy) per clinic practice."

ProgLowBullet(p) ==
    "Progesterone appears low (P4 " \o Fmt1(p) \o
    " ng/mL). Consider confirming progesterone on the day of transfer (or mid-luteal depending on protocol) and adjusting luteal support per clinic standards."

EndoFallbackBullet ==
    "Endometrial readiness markers (EMT and progesterone) look acceptable for proceeding within standard workflows."

BmiElevatedBullet(b) ==
    "BMI is elevated (BMI " \o Fmt1(b) \o
    "). Consider a pre-transfer optimization window focusing on weight, sleep, and activity - especially if repeated failures."

BmiModerateBullet(b) ==
    "BMI is moderately elevated (BMI " \o Fmt1(b) \o
    "). Lifestyle optimization may improve systemic environment before transfer."

AgeBullet(a) ==
    "Age is " \o Fmt0(a) \o
    ". Consider prioritizing embryo genetics/selection and minimizing delays to transfer once readiness is confirmed."

SysFallbackBullet ==
    "Systemic risk signals (age/BMI) are not strongly elevated; proceed with standard preparation."

GniBullet(x, up) ==
    "Global NAVIGATOR Index (0-100): " \o FmtScore(x, up) \o " -> " \o bucket(x) \o " overall risk"

DomainBullet(dom) == "Primary limiting domain: " \o dom

SequenceBullet ==
    "Suggested sequence: Address the primary limiting domain first, then re-check readiness and proceed to transfer."

\* Mutant of embryo_gate: the test of euploid is inverted.
embryo_gate_inverted(eu) ==
    IF eu
    THEN <<EmbryoFocusTitle,
           <<"If PGT-A is available/appropriate, prioritize transferring a euploid embryo to reduce embryo-related uncertainty.",
             "If no euploid embryos are available, focus on optimizing stimulation strategy and embryo selection (lab + morphology).",
             "Consider deferring endometrial optimization steps until embryo competence is addressed.">>>>
    ELSE <<EmbryoPassedTitle,
           <<"Proceed to endometrial and systemic optimization checks before transfer.">>>>

\* 1) Embryo-first gate
embryo_gate(eu) ==
    IF ~eu
    THEN <<EmbryoFocusTitle,
           <<"If PGT-A is available/appropriate, prioritize transferring a euploid embryo to reduce embryo-related uncertainty.",
             "If no euploid embryos are available, focus on optimizing stimulation strategy and embryo selection (lab + morphology).",
             "Consider deferring endometrial optimization steps until embryo competence is addressed.">>>>
    ELSE <<EmbryoPassedTitle,
           <<"Proceed to endometrial and systemic optimization checks before transfer.">>>>

\* Mutant of endo_actions: a thickness of exactly 7.0 counts as low.
endo_actions_le(e, p) ==
    LET a1 == IF e <= 70 THEN <<EmtLowBullet(e), CavityBullet>> ELSE <<>>
        a2 == IF p < 95 THEN Append(a1, ProgLowBullet(p)) ELSE a1
    IN  IF a2 = <<>> THEN <<EndoFallbackBullet>> ELSE a2

\* 2) Endometrial readiness
endo_actions(e, p) ==
    LET a1 == IF e < 70 THEN <<EmtLowBullet(e), CavityBullet>> ELSE <<>>
        a2 == IF p < 95 THEN Append(a1, ProgLowBullet(p)) ELSE a1
    IN  IF a2 = <<>> THEN <<EndoFallbackBullet>> ELSE a2

\* Mutant of sys_actions: the second BMI test is an if, not an elif.
sys_actions_both(a, b) ==
    LET a0 == IF b >= 300 THEN <<BmiElevatedBullet(b)>> ELSE <<>>
        a1 == IF b >= 270 THEN Append(a0, BmiModerateBullet(b)) ELSE a0
        a2 == IF a >= 380 THEN Append(a1, AgeBullet(a)) ELSE a1
    IN  IF a2 = <<>> THEN <<SysFallbackBullet>> ELSE a2

\* 3) Systemic optimization
sys_actions(a, b) ==
    LET a1 == IF b >= 300 THEN <<BmiElevatedBullet(b)>>
              ELSE IF b >= 270 THEN <<BmiModerateBullet(b)>>
              ELSE <<>>
        a2 == IF a >= 380 THEN Append(a1, AgeBullet(a)) ELSE a1
    IN  IF a2 = <<>> THEN <<SysFallbackBullet>> ELSE a2

\* 4) NAVIGATOR summary path
summary_path(s, n, g, x, up) ==
    LET dom == primary_limiting_domain(s, n, g)
    IN  <<SummaryTitle, <<GniBullet(x, up), DomainBullet(dom), SequenceBullet>>>>

\* up: the side f"{gni:.1f}" rounds to when gni is halfway between two tenths.
suggest_path(a, b, e, p, eu, gg, s, n, g, x, up) ==
    <<embryo_gate(eu),
      <<EndoTitle, endo_actions(e, p)>>,
      <<SysTitle, sys_actions(a, b)>>,
      summary_path(s, n, g, x, up)>>

\* The export row of the page.
export_row(a, b, e, p, eu, gg, s, n, g, x) ==
    [age |-> a, bmi |-> b, emt_mm |-> e, prog_ng_ml |-> p,
     euploid |-> IF eu THEN 1 ELSE 0, good_grade |-> IF gg THEN 1 ELSE 0,
     SBS |-> Round2(s), EPS |-> Round2(n), EGS |-> Round2(g), GNI |-> Round2(x),
     overall_bucket |-> bucket(x),
     primary_limiting_domain |-> primary_limiting_domain(s, n, g)]

\* ---------------------------------------------------------- the page run
\* One evaluation, in the order of the page script: the inputs are chosen,
\* navigator_index is called, then suggest_path, then the export row is built.
\* The inputs range over what the functions accept (any number, negative and
\* very large ones included); the page's widgets let through only a part of it
\* (age 18..55, bmi 15..50, emt_mm 3..20, prog_ng_ml 0..40).
NoRow == [overall_bucket |-> "", primary_limiting_domain |-> ""]

Init ==
    /\ age \in AgeVals
    /\ bmi \in BmiVals
    /\ emt_mm \in EmtVals
    /\ prog_ng_ml \in ProgVals
    /\ euploid \in BOOLEAN
    /\ good_grade \in BOOLEAN
    /\ sbs = 0 /\ eps = 0 /\ egs = 0 /\ gni = 0
    /\ suggestions = <<>>
    /\ row = NoRow
    /\ result = ""
    /\ pc = "inputs"

Compute ==
    /\ pc = "inputs"
    /\ LET r == navigator_index(age, bmi, emt_mm, prog_ng_ml, euploid, good_grade)
       IN  /\ sbs' = r[1]
           /\ eps' = r[2]
           /\ egs' = r[3]
           /\ gni' = r[4]
    /\ pc' = "scored"
    /\ UNCHANGED <<inputs, suggestions, row, result>>

Suggest ==
    /\ pc = "scored"
    /\ \E up \in (IF IsTie(gni) THEN BOOLEAN ELSE {FALSE}) :
          suggestions' = suggest_path(age, bmi, emt_mm, prog_ng_ml, euploid, good_grade,
                                      sbs, eps, egs, gni, up)
    /\ pc' = "suggested"
    /\ UNCHANGED <<inputs, scores, row, result>>

Export ==
    /\ pc = "suggested"
    /\ row' = export_row(age, bmi, emt_mm, prog_ng_ml, euploid, good_grade, sbs, eps, egs, gni)
    /\ pc' = "exported"
    /\ UNCHANGED <<inputs, scores, suggestions, result>>

Next == Compute \/ Suggest \/ Export

Spec == Init /\ [][Next]_vars

\* ------------------------------------------- the aggregator's functions
\* bucket and primary_limiting_domain called on their own, on any scores.
InitFn ==
    /\ sbs \in ScoreVals
    /\ eps \in ScoreVals
    /\ egs \in ScoreVals
    /\ gni = 0
    /\ age = 0 /\ bmi = 0 /\ emt_mm = 0 /\ prog_ng_ml = 0
    /\ euploid = FALSE /\ good_grade = FALSE
    /\ suggestions = <<>>
    /\ row = NoRow
    /\ result = ""
    /\ pc = "args"

CallBucket ==
    /\ pc = "args"
    /\ result' = bucket(sbs)
    /\ pc' = "bucket"
    /\ UNCHANGED <<inputs, scores, suggestions, row>>

CallPrimary ==
    /\ pc = "args"
    /\ result' = primary_limiting_domain(sbs, eps, egs)
    /\ pc' = "domain"
    /\ UNCHANGED <<inputs, scores, suggestions, row>>

NextFn == CallBucket \/ CallPrimary

SpecFn == InitFn /\ [][NextFn]_vars

\* ------------------------------------------------------------- properties
Scored == pc \in {"scored", "suggested", "exported"}

Suggested == pc \in {"suggested", "exported"}

InRange(x) == 0 <= x /\ x <= 100 * Unit

Range(s) == {s[i] : i \in DOMAIN s}

\* C1: whatever the inputs (negative and very large ones included), each of the
\* four values SBS, EPS, EGS, GNI returned by navigator_index lies in [0, 100].
C1_RangeInvariant ==
    Scored => InRange(sbs) /\ InRange(eps) /\ InRange(egs) /\ InRange(gni)

C1_Witness ==
    /\ pc = "scored"
    /\ age = -Far /\ bmi = Far /\ emt_mm = -Far /\ prog_ng_ml = Far
    /\ sbs = 45 * Unit /\ eps = 60 * Unit

\* C2: the GNI returned by navigator_index is 0.45*EGS + 0.35*EPS + 0.20*SBS of
\* the scores of the same call, clamped to [0, 100]; SBS = 0, EPS = 0, EGS = 100
\* give exactly 45, and three scores of 100 give 100.
C2_WeightedAggregation ==
    Scored =>
        /\ 100 * gni = clip(45 * egs + 35 * eps + 20 * sbs, 0, 100 * 100 * Unit)
        /\ (sbs = 0 /\ eps = 0 /\ egs = 100 * Unit => gni = 45 * Unit)
        /\ (sbs = 100 * Unit /\ eps = 100 * Unit /\ egs = 100 * Unit => gni = 100 * Unit)

C2_Witness ==
    pc = "scored" /\ sbs = 0 /\ eps = 0 /\ egs = 100 * Unit /\ gni = 45 * Unit

\* C3: primary_limiting_domain returns one of Embryo, Endometrium, Systemic, the
\* score of the domain returned is the greatest of the three, and ties go to
\* Embryo, then Endometrium, then Systemic.
C3_PrimaryLimitingDomain ==
    pc = "domain" =>
        /\ result \in {"Embryo", "Endometrium", "Systemic"}
        /\ result = "Embryo" => egs >= eps /\ egs >= sbs
        /\ result = "Endometrium" => eps > egs /\ eps >= sbs
        /\ result = "Systemic" => sbs > egs /\ sbs > eps
        /\ (sbs = eps /\ eps = egs) => result = "Embryo"

C3_Witness ==
    pc = "domain" /\ sbs = 0 /\ eps = 0 /\ egs = 0 /\ result = "Embryo"

\* C4: bucket is Low exactly below 30, Moderate exactly from 30 up to but not
\* including 60, High exactly from 60 on; every score gets one of the three.
C4_Bucket ==
    pc = "bucket" =>
        /\ result \in {"Low", "Moderate", "High"}
        /\ result = "Low" <=> sbs < 30 * Unit
        /\ result = "Moderate" <=> (30 * Unit <= sbs /\ sbs < 60 * Unit)
        /\ result = "High" <=> sbs >= 60 * Unit

C4_Witness ==
    pc = "bucket" /\ sbs = 30 * Unit /\ result = "Moderate"

\* C5: score_systemic is 0 when age <= 30 and bmi <= 22, 100 when age >= 45 and
\* bmi >= 40; score_endometrial is 0 when emt_mm >= 7 and prog_ng_ml >= 9.5, 100
\* when emt_mm <= 4 and prog_ng_ml <= 3.5; anywhere else the score is strictly
\* between 0 and 100.
SysLow == age <= 300 /\ bmi <= 220

SysHigh == age >= 450 /\ bmi >= 400

EndoLow == emt_mm >= 70 /\ prog_ng_ml >= 95

EndoHigh == emt_mm <= 40 /\ prog_ng_ml <= 35

C6_Monotonicity ==
    Scored =>
        /\ \A a \in AgeVals : a >= age => score_systemic(a, bmi) >= sbs
        /\ \A b \in BmiVals : b >= bmi => score_systemic(age, b) >= sbs
        /\ \A e \in EmtVals : e >= emt_mm => score_endometrial(e, prog_ng_ml) <= eps
        /\ \A p \in ProgVals : p >= prog_ng_ml => score_endometrial(emt_mm, p) <= eps
        /\ ~euploid => score_embryo(TRUE, good_grade) <= egs
        /\ ~good_grade => score_embryo(euploid, TRUE) <= egs

C6_Witness ==
    /\ pc = "scored"
    /\ age = 300 /\ score_systemic(301, bmi) > sbs
    /\ emt_mm = 69 /\ score_endometrial(70, prog_ng_ml) < eps
    /\ ~euploid /\ score_embryo(TRUE, good_grade) < egs

\* C7: suggest_path returns four sections in the order embryo gate, endometrial
\* actions, systemic actions, summary; the first has the title "Primary focus:
\* Embryo competence" and 3 bullets when euploid is false, the title "Embryo gate
\* passed (euploid = Yes)" and 1 bullet when it is true; the summary has 3 bullets.
C7_Sections ==
    Suggested =>
        /\ Len(suggestions) = 4
        /\ suggestions[2][1] = "Endometrial phenotype actions"
        /\ suggestions[3][1] = "Systemic biology actions"
        /\ suggestions[4][1] = "NAVIGATOR summary path"
        /\ ~euploid => /\ suggestions[1][1] = "Primary focus: Embryo competence"
                       /\ Len(suggestions[1][2]) = 3
        /\ euploid => /\ suggestions[1][1] = "Embryo gate passed (euploid = Yes)"
                      /\ Len(suggestions[1][2]) = 1
        /\ Len(suggestions[4][2]) = 3

C7_Witness ==
    /\ pc = "suggested"
    /\ ~euploid
    /\ suggestions[1][1] = "Primary focus: Embryo competence"
    /\ Len(suggestions[1][2]) = 3

\* C8: the systemic section holds the elevated-BMI bullet iff bmi >= 30, the
\* moderately-elevated one iff 27 <= bmi < 30 (never both), the age bullet iff
\* age >= 38 and then last, the fallback iff bmi < 27 and age < 38 and then
\* alone; it holds 1 or 2 bullets.
SysBullets == suggestions[3][2]

C8_SystemicSection ==
    Suggested =>
        LET B == SysBullets
            bmiBullets == {i \in DOMAIN B :
                              B[i] \in {BmiElevatedBullet(bmi), BmiModerateBullet(bmi)}}
        IN  /\ BmiElevatedBullet(bmi) \in Range(B) <=> bmi >= 300
            /\ BmiModerateBullet(bmi) \in Range(B) <=> (270 <= bmi /\ bmi < 300)
            /\ Cardinality(bmiBullets) <= 1
            /\ AgeBullet(age) \in Range(B) <=> age >= 380
            /\ age >= 380 => /\ B[Len(B)] = AgeBullet(age)
                             /\ \A i \in bmiBullets : i < Len(B)
            /\ SysFallbackBullet \in Range(B) <=> (bmi < 270 /\ age < 380)
            /\ SysFallbackBullet \in Range(B) => B = <<SysFallbackBullet>>
            /\ Len(B) \in {1, 2}

C8_Witness ==
    /\ pc = "suggested"
    /\ bmi = 300 /\ age = 380
    /\ SysBullets = <<BmiElevatedBullet(300), AgeBullet(380)>>

\* C9: the endometrial section holds the two thickness bullets iff emt_mm < 7.0,
\* the progesterone bullet iff prog_ng_ml < 9.5 and after the thickness bullets,
\* the fallback iff emt_mm >= 7.0 and prog_ng_ml >= 9.5 and then alone; it holds
\* 1, 2 or 3 bullets.
EndoBullets == suggestions[2][2]

C9_EndometrialSection ==
    Suggested =>
        LET B == EndoBullets
        IN  /\ EmtLowBullet(emt_mm) \in Range(B) <=> emt_mm < 70
            /\ CavityBullet \in Range(B) <=> emt_mm < 70
            /\ emt_mm < 70 => Len(B) >= 2 /\ B[1] = EmtLowBullet(emt_mm) /\ B[2] = CavityBullet
            /\ ProgLowBullet(prog_ng_ml) \in Range(B) <=> prog_ng_ml < 95
            /\ prog_ng_ml < 95 => B[Len(B)] = ProgLowBullet(prog_ng_ml)
            /\ EndoFallbackBullet \in Range(B) <=> (emt_mm >= 70 /\ prog_ng_ml >= 95)
            /\ EndoFallbackBullet \in Range(B) => B = <<EndoFallbackBullet>>
            /\ Len(B) = (IF emt_mm < 70 THEN 2 ELSE 0) + (IF prog_ng_ml < 95 THEN 1 ELSE 0)
                        + (IF emt_mm >= 70 /\ prog_ng_ml >= 95 THEN 1 ELSE 0)
            /\ Len(B) \in {1, 2, 3}

C9_Witness ==
    /\ pc = "suggested"
    /\ emt_mm = 69 /\ prog_ng_ml = 94
    /\ EndoBullets = <<EmtLowBullet(69), CavityBullet, ProgLowBullet(94)>>

\* C10: when euploid is false the embryo score is at least 70 and GNI at least
\* 31.5, so when the first section is "Primary focus: Embryo competence" the
\* bucket of GNI in the summary bullet and in the export row is never Low.
NotLowGniBullets ==
    {"Global NAVIGATOR Index (0-100): " \o FmtScore(gni, up) \o " -> " \o b \o " overall risk" :
        up \in BOOLEAN, b \in {"Moderate", "High"}}

C10_NeverLowWhenNotEuploid ==
    /\ Scored /\ ~euploid => egs >= 70 * Unit /\ 10 * gni >= 315 * Unit /\ bucket(gni) # "Low"
    /\ Suggested /\ suggestions[1][1] = "Primary focus: Embryo competence" =>
           /\ bucket(gni) \in {"Moderate", "High"}
           /\ suggestions[4][2][1] \in NotLowGniBullets
    /\ pc = "exported" /\ suggestions[1][1] = "Primary focus: Embryo competence" =>
           row.overall_bucket \in {"Moderate", "High"}

C10_Witness ==
    /\ pc = "exported"
    /\ ~euploid /\ good_grade
    /\ suggestions[1][1] = "Primary focus: Embryo competence"
    /\ sbs = 0 /\ eps = 0 /\ egs = 70 * Unit /\ 10 * gni = 315 * Unit
    /\ row.overall_bucket = "Moderate"

====
